---- MODULE Spec2Model ----
(***************************************************************************)
(* Model of app/spotify_auth.py: the PKCE handler SpotifyPKCEAuth and the  *)
(* session facade SpotifyAuthManager that owns one handler.                *)
(*                                                                         *)
(* Python str values are sequences of one-character strings, so that       *)
(* equality, emptiness, length and decoding are the ones the code uses.    *)
(* Python None is the distinguished value None below; dict keys and        *)
(* keyword names are TLA+ strings.                                         *)
(***************************************************************************)
EXTENDS Integers, Sequences, FiniteSets, TLC

\* ------------------------------------------------------------------ bounds
\* Number of distinct access tokens / refresh tokens the endpoint can issue.
NumTokens == 2
\* Number of distinct outcomes of the random verifier generator.
NumSeeds == 2
\* Longest query string (in key=value pairs) of a redirect URL handed to
\* validate_authorization_response in SpecRedirect.
MaxParams == 3

\* ------------------------------------------------------- program constants
VerifierLength == 128

\* ------------------------------------------------------------ Python values
None == <<"<None>">>
NoneObj == [kind |-> "None"]

\* `not x` for an Optional[str]: None and "" are both falsy.
Falsy(x) == x = None \/ x = <<>>

\* Mutant of Or: only None gives way to the default, an empty string is
\* kept.
OrIfNone(x, d) == IF x = None THEN d ELSE x

\* `x or d`
Or(x, d) == IF Falsy(x) THEN d ELSE x

Digit(i) == <<"1", "2", "3", "4", "5", "6", "7", "8", "9">>[i]

\* --------------------------------------------------------- string literals
DefaultScope == <<"u", "s", "e", "r", "-", "r", "e", "a", "d", "-", "p", "r", "i", "v", "a", "t", "e", " ", "u", "s", "e", "r", "-", "r", "e", "a", "d", "-", "e", "m", "a", "i", "l">>
AuthorizeEndpoint == <<"h", "t", "t", "p", "s", ":", "/", "/", "a", "c", "c", "o", "u", "n", "t", "s", ".", "s", "p", "o", "t", "i", "f", "y", ".", "c", "o", "m", "/", "a", "u", "t", "h", "o", "r", "i", "z", "e">>
AccessDenied == <<"a", "c", "c", "e", "s", "s", "_", "d", "e", "n", "i", "e", "d">>
S256 == <<"S", "2", "5", "6">>
ResponseTypeCode == <<"c", "o", "d", "e">>
ClientIdArg == <<"a", "b", "c">>
RedirectUriArg == <<"h", "t", "t", "p", ":", "/", "/", "l", "o", "c", "a", "l", "h", "o", "s", "t", ":", "8", "0", "8", "0", "/", "c", "a", "l", "l", "b", "a", "c", "k">>

\* csrf state tokens: two that differ only in the case of one letter
s1 == <<"s", "1">>
S1 == <<"S", "1">>
StateTokens == {s1, S1}

\* authorization codes as they arrive after decoding
AuthCodes == {<<"c", "1">>, <<"c", "2">>}

AccessTokens == {<<"a", Digit(i)>> : i \in 1..NumTokens}
RefreshTokens == {<<"r", Digit(i)>> : i \in 1..NumTokens}

\* ------------------------------------------------------------ pkce library
\* Characters token_urlsafe draws from (a sample of the URL-safe alphabet).
VerifierAlphabet == <<"a", "B", "3", "-", "_", "x", "Z">>

\* Mutant of generate_code_verifier: the requested length is ignored and
\* the shortest verifier PKCE allows is drawn.
GenerateShortestVerifier(seed, length) ==
    [i \in 1..43 |-> VerifierAlphabet[((seed * i + seed)
                                        % Len(VerifierAlphabet)) + 1]]

\* generate_code_verifier(length): one outcome of the random generator per
\* seed; the result has `length` characters.
generate_code_verifier(seed, length) ==
    [i \in 1..length |->
        VerifierAlphabet[((seed * i + seed) % Len(VerifierAlphabet)) + 1]]

Base64Url == <<"A", "B", "C", "D", "E", "F", "G", "H", "I", "J", "K", "L", "M", "N", "O", "P", "Q", "R", "S", "T", "U", "V", "W", "X", "Y", "Z", "a", "b", "c", "d", "e", "f", "g", "h", "i", "j", "k", "l", "m", "n", "o", "p", "q", "r", "s", "t", "u", "v", "w", "x", "y", "z", "0", "1", "2", "3", "4", "5", "6", "7", "8", "9", "-", "_">>

CharCode(c) == CHOOSE i \in 1..Len(VerifierAlphabet) : VerifierAlphabet[i] = c

RECURSIVE WeightedSum(_, _, _)
\* The sum of i * CharCode(v[i]) for i in lo..hi, by halving the range.
WeightedSum(v, lo, hi) ==
    IF lo > hi THEN 0
    ELSE IF lo = hi THEN lo * CharCode(v[lo])
    ELSE LET mid == (lo + hi) \div 2
         IN  WeightedSum(v, lo, mid) + WeightedSum(v, mid + 1, hi)

\* A 16-bit digest of the whole string (stands for SHA-256): it depends on
\* every character and on its position.
Digest(v) == (7 + WeightedSum(v, 1, Len(v))) % 65536

\* get_code_challenge(verifier): URL-safe base64 of the digest, padding
\* stripped (16 bits -> 3 characters).
get_code_challenge(verifier) ==
    LET d == Digest(verifier)
    IN  << Base64Url[(d \div 1024) + 1],
           Base64Url[((d \div 16) % 64) + 1],
           Base64Url[((d % 16) * 4) + 1] >>

\* ----------------------------------------------------------- urllib.parse
\* The percent escapes that occur in the modelled URLs.
HexByte ==
    (<<"3", "1">> :> "1") @@ (<<"3", "2">> :> "2")
    @@ (<<"3", "A">> :> ":") @@ (<<"2", "F">> :> "/")

RECURSIVE unquote(_)
\* parse_qs decodes each value: "+" is a space, "%XX" is one character, an
\* escape that is not valid hex is kept as it is.
unquote(s) ==
    IF s = <<>> THEN <<>>
    ELSE IF s[1] = "%" /\ Len(s) >= 3 /\ <<s[2], s[3]>> \in DOMAIN HexByte
         THEN <<HexByte[<<s[2], s[3]>>]>> \o unquote(SubSeq(s, 4, Len(s)))
    ELSE IF s[1] = "+" THEN <<" ">> \o unquote(Tail(s))
    ELSE <<s[1]>> \o unquote(Tail(s))

\* A URL is its query string, a sequence of <<key, raw value>> pairs in the
\* order they are written; urlparse(url).query selects it.
urlparse(raw_query) == [query |-> raw_query]

\* Mutant of kept_pairs: blank values are kept (keep_blank_values=True).
KeptPairsWithBlanks(query) == query

\* The pairs parse_qs keeps: keep_blank_values is False, so a pair whose raw
\* value is empty is dropped before decoding.
kept_pairs(query) == SelectSeq(query, LAMBDA p : p[2] # <<>>)

\* parse_qs(query): a dict from each key that has a non-blank value to the
\* list of its decoded values, in the order of the query string.
parse_qs(query) ==
    LET kept == kept_pairs(query)
        keys == {kept[i][1] : i \in DOMAIN kept}
        of(k) == SelectSeq(kept, LAMBDA p : p[1] = k)
    IN  [k \in keys |-> [i \in 1..Len(of(k)) |-> unquote(of(k)[i][2])]]

\* All sequences over S of length at most n.
SeqsUpTo(S, n) == UNION {[1..m -> S] : m \in 0..n}

\* key=value pairs a redirect URL may carry (raw, as written in the URL).
RedirectPairs ==
    {<<"error", AccessDenied>>, <<"error", <<>>>>,
     <<"state", s1>>, <<"state", S1>>, <<"state", <<>>>>,
     <<"code", <<"c", "1">>>>, <<"code", <<"c", "%", "3", "2">>>>,
     <<"code", <<>>>>}

\* Redirect URLs handed to validate_authorization_response on its own.
RedirectUrls == SeqsUpTo(RedirectPairs, MaxParams)

\* Redirect URLs fed to a session: every subset of the three parameters,
\* each written at most once, in the order the provider writes them (the
\* other orders and repeated parameters are inputs of SpecRedirect).
FlowPairs ==
    {<<"error", AccessDenied>>, <<"state", s1>>, <<"state", S1>>,
     <<"code", <<"c", "1">>>>}

KeyRank == ("code" :> 1) @@ ("error" :> 2) @@ ("state" :> 3)

FlowUrls ==
    {q \in SeqsUpTo(FlowPairs, 3) :
        \A i, j \in DOMAIN q : i < j => KeyRank[q[i][1]] < KeyRank[q[j][1]]}

\* ------------------------------------------------------------------- state
VARIABLES
    client_id,      \* SpotifyPKCEAuth.client_id
    redirect_uri,   \* SpotifyPKCEAuth.redirect_uri
    scope,          \* SpotifyPKCEAuth.scope
    state,          \* SpotifyPKCEAuth.state (the csrf state)
    code_verifier,  \* SpotifyPKCEAuth.code_verifier
    code_challenge, \* SpotifyPKCEAuth.code_challenge
    oauth,          \* SpotifyPKCEAuth.oauth
    access_token,   \* SpotifyAuthManager.access_token
    refresh_token,  \* SpotifyAuthManager.refresh_token
    spotify_client, \* SpotifyAuthManager.spotify_client
    endpoint,       \* the token endpoint in use: "conformant" or "lax"
    issued,         \* history: the refresh token most recently issued to
                    \* the manager in a token_info it received
    environ,        \* the environment variables the command line is run with
    env_file,       \* the .env file of the working directory, NoneObj if absent
    cli,            \* the command line: where it stands, how it last exited
    attempted,      \* history: the stored PKCE pair has already been put
                    \* in an authorization URL
    last            \* the last call: its arguments, what it sent, how it ended

handler == <<client_id, redirect_uri, scope, state, code_verifier,
             code_challenge, oauth>>
manager == <<access_token, refresh_token, spotify_client>>
env == <<endpoint, environ, env_file, cli>>
vars == <<client_id, redirect_uri, scope, state, code_verifier,
          code_challenge, oauth, access_token, refresh_token,
          spotify_client, endpoint, environ, env_file, cli, issued,
          attempted, last>>

\* The record of a call that has not happened: the fields every call fills.
NoCall ==
    [op |-> "init", url |-> <<>>, arg |-> None, outcome |-> "none",
     error |-> None, code |-> None, auth_url |-> NoneObj, client |-> NoneObj,
     sent |-> <<>>, reply |-> NoneObj, token_info |-> NoneObj,
     flag |-> FALSE, reused |-> FALSE]

\* ------------------------------------------------- external collaborators
\* spotipy.oauth2.SpotifyOAuth(...) as constructed by the handler.
SpotifyOAuth ==
    [kind |-> "SpotifyOAuth", client_id |-> client_id, client_secret |-> None,
     redirect_uri |-> redirect_uri, scope |-> scope, state |-> state,
     open_browser |-> FALSE, cache_handler |-> None]

\* spotipy.Spotify(auth=access_token)
Spotify(auth) == [kind |-> "Spotify", auth |-> auth]

\* What the token endpoint can answer: a failure (the library raises), or a
\* token_info dict, which may or may not have the key refresh_token.  A
\* conformant endpoint always issues an access token; a lax one may answer
\* with a null access_token, which the code stores unexamined.
AccessTokenValues ==
    IF endpoint = "lax" THEN AccessTokens \cup {None} ELSE AccessTokens

TokenInfos ==
    {[access_token |-> a] : a \in AccessTokenValues}
    \cup {[access_token |-> a, refresh_token |-> r] :
            a \in AccessTokenValues, r \in RefreshTokens}

EndpointReplies ==
    {[ok |-> FALSE]} \cup {[ok |-> TRUE, token_info |-> t] : t \in TokenInfos}

\* The endpoint answers only a call that reaches it.
NoReply == [ok |-> FALSE]
RepliesIf(asked) == IF asked THEN EndpointReplies ELSE {NoReply}

\* The refresh token most recently issued, after one more token_info.
Issued(token_info) ==
    IF "refresh_token" \in DOMAIN token_info
    THEN token_info["refresh_token"]
    ELSE issued

\* dict.get(key): None when the key is absent.
Get(d, k) == IF k \in DOMAIN d THEN d[k] ELSE None

\* ------------------------------------------------------- SpotifyPKCEAuth
\* Mutant of error_present: the error is honoured only when no code came.
ErrorPresentUnlessCode(query_params) ==
    "error" \in DOMAIN query_params /\ "code" \notin DOMAIN query_params

\* line 180: `"error" in query_params`
error_present(query_params) == "error" \in DOMAIN query_params

\* Mutant of state_mismatch: the states are compared ignoring case.
StateMismatchNormalized(query_params) ==
    LET lower(s) == [i \in DOMAIN s |-> IF s[i] = "S" THEN "s" ELSE s[i]]
    IN  \/ "state" \notin DOMAIN query_params
        \/ lower(query_params["state"][1]) # lower(state)

\* line 185: the state parameter is missing or is not the stored state
state_mismatch(query_params) ==
    \/ "state" \notin DOMAIN query_params
    \/ query_params["state"][1] # state

\* Mutant of validate_authorization_response: a redirect without a code is
\* refused like the other two failures instead of returning None.
ValidateRaisingOnNoCode(url) ==
    LET query_params == parse_qs(urlparse(url).query)
    IN  IF error_present(query_params)
        THEN [outcome |-> "AuthorizationError",
              error |-> query_params["error"][1], code |-> None]
        ELSE IF state_mismatch(query_params)
        THEN [outcome |-> "CsrfMismatchError", error |-> None, code |-> None]
        ELSE IF "code" \notin DOMAIN query_params
        THEN [outcome |-> "IncompleteAuthorizationError", error |-> None,
              code |-> None]
        ELSE [outcome |-> "ok", error |-> None,
              code |-> query_params["code"][1]]

\* validate_authorization_response(url): how the call ends, the error code
\* an AuthorizationError carries, and the value returned.
validate_authorization_response(url) ==
    LET parsed_url == urlparse(url)
        query_params == parse_qs(parsed_url.query)
    IN  IF error_present(query_params)
        THEN [outcome |-> "AuthorizationError",
              error |-> query_params["error"][1], code |-> None]
        ELSE IF state_mismatch(query_params)
        THEN [outcome |-> "CsrfMismatchError", error |-> None, code |-> None]
        ELSE IF "code" \notin DOMAIN query_params
        THEN [outcome |-> "ok", error |-> None, code |-> None]
        ELSE [outcome |-> "ok", error |-> None,
              code |-> query_params["code"][1]]

\* Mutant of verifier_missing: the check of line 105 is left out.
VerifierCheckOmitted == FALSE

\* line 105: `not self.code_verifier`
verifier_missing == Falsy(code_verifier)

\* exchange_code_for_tokens(authorization_code) against an endpoint that
\* answers `reply`: how the call ends, the value of self.oauth afterwards,
\* the requests handed to the library and the token_info returned.
exchange_code_for_tokens(authorization_code, reply) ==
    IF verifier_missing
    THEN [outcome |-> "PreconditionError", oauth |-> oauth, sent |-> <<>>,
          token_info |-> NoneObj]
    ELSE LET request == [call |-> "get_access_token", oauth |-> SpotifyOAuth,
                         code |-> authorization_code]
         IN  IF reply.ok
             THEN [outcome |-> "ok", oauth |-> SpotifyOAuth,
                   sent |-> <<request>>, token_info |-> reply.token_info]
             ELSE [outcome |-> "TokenEndpointError", oauth |-> SpotifyOAuth,
                   sent |-> <<request>>, token_info |-> NoneObj]

\* Mutant of refresh_access_token: a failed request is sent once more
\* before the failure is raised.
RefreshWithRetry(token, reply) ==
    LET inst == IF oauth = NoneObj THEN SpotifyOAuth ELSE oauth
        request == [call |-> "refresh_access_token", oauth |-> inst,
                    refresh_token |-> token]
    IN  IF reply.ok
        THEN [outcome |-> "ok", oauth |-> inst, sent |-> <<request>>,
              token_info |-> reply.token_info]
        ELSE [outcome |-> "TokenEndpointError", oauth |-> inst,
              sent |-> <<request, request>>, token_info |-> NoneObj]

\* refresh_access_token(refresh_token): self.oauth is built only if unset.
refresh_access_token(token, reply) ==
    LET inst == IF oauth = NoneObj THEN SpotifyOAuth ELSE oauth
        request == [call |-> "refresh_access_token", oauth |-> inst,
                    refresh_token |-> token]
    IN  IF reply.ok
        THEN [outcome |-> "ok", oauth |-> inst, sent |-> <<request>>,
              token_info |-> reply.token_info]
        ELSE [outcome |-> "TokenEndpointError", oauth |-> inst,
              sent |-> <<request>>, token_info |-> NoneObj]

\* urllib.parse.quote_plus on the characters that occur: a space becomes
\* "+", a reserved character its percent escape, anything else is kept.
Escapes ==
    (" " :> <<"+">>) @@ (":" :> <<"%", "3", "A">>)
    @@ ("/" :> <<"%", "2", "F">>)

\* quote_plus(s): every character escaped on its own, the results joined
\* (the string is split in halves to keep the evaluation shallow).
RECURSIVE quote_plus(_)
quote_plus(s) ==
    IF s = <<>> THEN <<>>
    ELSE IF Len(s) = 1
    THEN (IF s[1] \in DOMAIN Escapes THEN Escapes[s[1]] ELSE s)
    ELSE quote_plus(SubSeq(s, 1, Len(s) \div 2))
         \o quote_plus(SubSeq(s, Len(s) \div 2 + 1, Len(s)))

\* urlencode(params): the pairs in dict order, each value quoted.
urlencode(params) ==
    [i \in DOMAIN params |-> <<params[i][1], quote_plus(params[i][2])>>]

\* Mutant of authorization_url: the stored verifier is sent in place of the
\* challenge derived from it.
AuthorizationUrlSendingVerifier(challenge) ==
    LET params == << <<"client_id", client_id>>,
                     <<"response_type", ResponseTypeCode>>,
                     <<"redirect_uri", redirect_uri>>,
                     <<"scope", scope>>,
                     <<"state", state>>,
                     <<"code_challenge_method", S256>>,
                     <<"code_challenge", Or(code_verifier, challenge)>> >>
    IN  [endpoint |-> AuthorizeEndpoint, query |-> urlencode(params)]

\* Mutant of authorization_url: the challenge method is left out, which the
\* authorization server reads as "plain".
AuthorizationUrlWithoutMethod(challenge) ==
    LET params == << <<"client_id", client_id>>,
                     <<"response_type", ResponseTypeCode>>,
                     <<"redirect_uri", redirect_uri>>,
                     <<"scope", scope>>,
                     <<"state", state>>,
                     <<"code_challenge", challenge>> >>
    IN  [endpoint |-> AuthorizeEndpoint, query |-> urlencode(params)]

\* lines 78-89 of get_authorization_url: the URL built from the fields of a
\* handler.
authorization_url_of(self) ==
    LET params == << <<"client_id", self.client_id>>,
                     <<"response_type", ResponseTypeCode>>,
                     <<"redirect_uri", self.redirect_uri>>,
                     <<"scope", self.scope>>,
                     <<"state", self.state>>,
                     <<"code_challenge_method", S256>>,
                     <<"code_challenge", self.code_challenge>> >>
    IN  [endpoint |-> AuthorizeEndpoint, query |-> urlencode(params)]

\* get_authorization_url on the session, with the challenge it has by then.
authorization_url(challenge) ==
    authorization_url_of([client_id |-> client_id,
                          redirect_uri |-> redirect_uri, scope |-> scope,
                          state |-> state, code_challenge |-> challenge])

\* Mutant of challenge_missing: a pair is generated on every call.
ChallengeCheckOmitted == TRUE

\* `if not self.code_challenge` of get_authorization_url.
challenge_missing == Falsy(code_challenge)

\* generate_pkce_params(): a fresh verifier and the challenge derived from it.
GeneratePkceParams ==
    \E seed \in 1..NumSeeds :
        /\ code_verifier' = generate_code_verifier(seed, VerifierLength)
        /\ code_challenge' = get_code_challenge(code_verifier')
        /\ attempted' = FALSE
        /\ last' = [NoCall EXCEPT !.op = "generate_pkce_params"]
        /\ UNCHANGED <<client_id, redirect_uri, scope, state, oauth, manager,
                       env, issued>>

\* SpotifyAuthManager.start_auth_flow() = handler.get_authorization_url():
\* generates the PKCE pair when no challenge is stored, then builds the URL.
StartAuthFlow ==
    \E seed \in 1..NumSeeds :
        /\ IF challenge_missing
           THEN /\ code_verifier' = generate_code_verifier(seed, VerifierLength)
                /\ code_challenge' = get_code_challenge(code_verifier')
           ELSE UNCHANGED <<code_verifier, code_challenge>>
        /\ attempted' = TRUE
        /\ last' = [NoCall EXCEPT !.op = "start_auth_flow",
                                  !.outcome = "ok",
                                  !.auth_url = authorization_url(code_challenge'),
                                  !.reused = ~challenge_missing /\ attempted]
        /\ UNCHANGED <<client_id, redirect_uri, scope, state, oauth, manager,
                       env, issued>>

\* Mutant of ValidateAuthorizationResponse: a state that has been matched
\* is used up and cannot be matched again.
ValidateConsumingState(url) ==
    LET v == validate_authorization_response(url)
    IN  /\ last' = [NoCall EXCEPT !.op = "validate_authorization_response",
                                  !.url = url, !.outcome = v.outcome,
                                  !.error = v.error, !.code = v.code]
        /\ state' = IF v.outcome = "ok" THEN None ELSE state
        /\ UNCHANGED <<client_id, redirect_uri, scope, code_verifier,
                       code_challenge, oauth, manager, env, issued,
                       attempted>>

\* handler.validate_authorization_response(url), called on its own.
ValidateAuthorizationResponse(url) ==
    LET r == validate_authorization_response(url)
    IN  /\ last' = [NoCall EXCEPT !.op = "validate_authorization_response",
                                  !.url = url, !.outcome = r.outcome,
                                  !.error = r.error, !.code = r.code]
        /\ UNCHANGED <<handler, manager, env, issued, attempted>>

\* handler.exchange_code_for_tokens(code), called on its own.
ExchangeCodeForTokens(authorization_code) ==
    \E reply \in RepliesIf(~verifier_missing) :
    LET r == exchange_code_for_tokens(authorization_code, reply)
    IN  /\ oauth' = r.oauth
        /\ last' = [NoCall EXCEPT !.op = "exchange_code_for_tokens",
                                  !.arg = authorization_code,
                                  !.outcome = r.outcome, !.sent = r.sent,
                                  !.reply = IF r.sent = <<>> THEN NoneObj
                                            ELSE reply,
                                  !.token_info = r.token_info]
        /\ UNCHANGED <<client_id, redirect_uri, scope, state, code_verifier,
                       code_challenge, manager, env, issued, attempted>>

\* ----------------------------------------------------- SpotifyAuthManager
\* Mutant of code_missing: the check of line 245 is left out.
CodeCheckOmitted(auth_code) == FALSE

\* line 245: `not auth_code`
code_missing(auth_code) == Falsy(auth_code)

\* line 253: token_info.get("refresh_token")
complete_refresh_token(token_info) == Get(token_info, "refresh_token")

\* Mutant of refresh_token_missing: the check of line 270 is left out.
RefreshTokenCheckOmitted == FALSE

\* line 270: `not self.refresh_token`
refresh_token_missing == Falsy(refresh_token)

\* Mutant of refreshed_refresh_token: the key is read with dict.get, as
\* complete_auth_flow reads it.
RefreshedByGet(token_info) == Get(token_info, "refresh_token")

\* lines 278-279: the refresh token is replaced only if the key is there.
refreshed_refresh_token(token_info) ==
    IF "refresh_token" \in DOMAIN token_info
    THEN token_info["refresh_token"]
    ELSE refresh_token

\* Mutant of is_authenticated: only the client handle is looked at.
IsAuthenticatedClientOnly == spotify_client # NoneObj

\* Mutant of is_authenticated: a refresh token is asked for as well.
IsAuthenticatedNeedsRefreshToken ==
    spotify_client # NoneObj /\ access_token # None /\ refresh_token # None

\* is_authenticated()
is_authenticated == spotify_client # NoneObj /\ access_token # None

\* Mutant of create_spotify_client: a client that exists is kept instead of
\* being rebuilt.
CreateClientOnce(token) ==
    IF spotify_client = NoneObj THEN Spotify(token) ELSE spotify_client

\* create_spotify_client(access_token).
create_spotify_client(token) == Spotify(token)

\* complete_auth_flow(redirect_url) on the session; `reply` is the
\* endpoint's answer.
complete_auth_flow(redirect_url) ==
    LET v == validate_authorization_response(redirect_url)
        asked == v.outcome = "ok" /\ ~code_missing(v.code)
                 /\ ~verifier_missing
    IN
    \E reply \in RepliesIf(asked) :
    LET call == [NoCall EXCEPT !.op = "complete_auth_flow",
                               !.url = redirect_url, !.code = v.code]
    IN  IF v.outcome # "ok"
        THEN /\ last' = [call EXCEPT !.outcome = v.outcome,
                                     !.error = v.error]
             /\ UNCHANGED <<handler, manager, issued, attempted>>
        ELSE IF code_missing(v.code)
        THEN /\ last' = [call EXCEPT
                            !.outcome = "IncompleteAuthorizationError"]
             /\ UNCHANGED <<handler, manager, issued, attempted>>
        ELSE LET x == exchange_code_for_tokens(v.code, reply)
             IN  /\ oauth' = x.oauth
                 /\ UNCHANGED <<client_id, redirect_uri, scope, state,
                                code_verifier, code_challenge, attempted>>
                 /\ IF x.outcome # "ok"
                    THEN /\ last' = [call EXCEPT
                                        !.outcome = x.outcome,
                                        !.sent = x.sent,
                                        !.reply = IF x.sent = <<>>
                                                  THEN NoneObj ELSE reply]
                         /\ UNCHANGED <<manager, issued>>
                    ELSE /\ access_token' = x.token_info["access_token"]
                         /\ refresh_token' =
                                complete_refresh_token(x.token_info)
                         /\ spotify_client' = create_spotify_client(access_token')
                         /\ issued' = Issued(x.token_info)
                         /\ last' = [call EXCEPT
                                        !.outcome = "ok", !.sent = x.sent,
                                        !.reply = reply,
                                        !.token_info = x.token_info,
                                        !.client = spotify_client']

\* complete_auth_flow(redirect_url), called by the user of the session.
CompleteAuthFlow(redirect_url) ==
    /\ complete_auth_flow(redirect_url)
    /\ UNCHANGED env

\* Mutant of RefreshAuth: a refresh the endpoint refuses logs the session
\* out.
RefreshAuthLoggingOut ==
    \E reply \in RepliesIf(~refresh_token_missing) :
    LET call == [NoCall EXCEPT !.op = "refresh_auth"]
    IN  IF refresh_token_missing
        THEN /\ last' = [call EXCEPT !.outcome = "NoRefreshTokenError"]
             /\ UNCHANGED <<handler, manager, env, issued, attempted>>
        ELSE LET x == refresh_access_token(refresh_token, reply)
             IN  /\ oauth' = x.oauth
                 /\ UNCHANGED <<client_id, redirect_uri, scope, state,
                                code_verifier, code_challenge, env, attempted>>
                 /\ IF x.outcome # "ok"
                    THEN /\ last' = [call EXCEPT
                                        !.outcome = x.outcome,
                                        !.sent = x.sent, !.reply = reply]
                         /\ access_token' = None
                         /\ spotify_client' = NoneObj
                         /\ UNCHANGED <<refresh_token, issued>>
                    ELSE /\ access_token' = x.token_info["access_token"]
                         /\ refresh_token' =
                                refreshed_refresh_token(x.token_info)
                         /\ spotify_client' =
                                create_spotify_client(access_token')
                         /\ issued' = Issued(x.token_info)
                         /\ last' = [call EXCEPT
                                        !.outcome = "ok", !.sent = x.sent,
                                        !.reply = reply,
                                        !.token_info = x.token_info,
                                        !.client = spotify_client']

\* refresh_auth(); `reply` is the endpoint's answer.
RefreshAuth ==
    \E reply \in RepliesIf(~refresh_token_missing) :
    LET call == [NoCall EXCEPT !.op = "refresh_auth"]
    IN  IF refresh_token_missing
        THEN /\ last' = [call EXCEPT !.outcome = "NoRefreshTokenError"]
             /\ UNCHANGED <<handler, manager, env, issued, attempted>>
        ELSE LET x == refresh_access_token(refresh_token, reply)
             IN  /\ oauth' = x.oauth
                 /\ UNCHANGED <<client_id, redirect_uri, scope, state,
                                code_verifier, code_challenge, env, attempted>>
                 /\ IF x.outcome # "ok"
                    THEN /\ last' = [call EXCEPT
                                        !.outcome = x.outcome,
                                        !.sent = x.sent,
                                        !.reply = IF x.sent = <<>>
                                                  THEN NoneObj ELSE reply]
                         /\ UNCHANGED <<manager, issued>>
                    ELSE /\ access_token' = x.token_info["access_token"]
                         /\ refresh_token' =
                                refreshed_refresh_token(x.token_info)
                         /\ spotify_client' = create_spotify_client(access_token')
                         /\ issued' = Issued(x.token_info)
                         /\ last' = [call EXCEPT
                                        !.outcome = "ok", !.sent = x.sent,
                                        !.reply = reply,
                                        !.token_info = x.token_info,
                                        !.client = spotify_client']

\* is_authenticated(), called by the user of the session.
IsAuthenticated ==
    /\ last' = [NoCall EXCEPT !.op = "is_authenticated", !.outcome = "ok",
                              !.flag = is_authenticated]
    /\ UNCHANGED <<handler, manager, env, issued, attempted>>

\* ----------------------------------------------------------- configuration
\* The literals of config.py.
HttpPrefix == <<"h", "t", "t", "p", ":", "/", "/">>
HttpsPrefix == <<"h", "t", "t", "p", "s", ":", "/", "/">>
ConfigDefaultScope == <<"u", "s", "e", "r", "-", "r", "e", "a", "d", "-", "p", "r", "i", "v", "a", "t", "e", " ", "u", "s", "e", "r", "-", "r", "e", "a", "d", "-", "e", "m", "a", "i", "l">>

\* os.getenv(key, default) on an environment: a function from the names
\* that are set to their values.
getenv(os_env, key, default) ==
    IF key \in DOMAIN os_env THEN os_env[key] ELSE default

\* SpotifyConfig(): the three settings read from the environment.
SpotifyConfig(os_env) ==
    [client_id |-> getenv(os_env, "SPOTIFY_CLIENT_ID", <<>>),
     redirect_uri |-> getenv(os_env, "SPOTIFY_REDIRECT_URI", <<>>),
     scope |-> getenv(os_env, "SPOTIFY_SCOPE", ConfigDefaultScope)]

\* str.startswith(prefix).
startswith(s, prefix) ==
    Len(s) >= Len(prefix) /\ SubSeq(s, 1, Len(prefix)) = prefix

\* Mutant of validate: the redirect URI is examined before the client id.
ValidateRedirectFirst(config) ==
    IF Falsy(config.redirect_uri)
    THEN [outcome |-> "ValueError",
          message |-> "SPOTIFY_REDIRECT_URI is required"]
    ELSE IF ~(startswith(config.redirect_uri, HttpPrefix)
              \/ startswith(config.redirect_uri, HttpsPrefix))
    THEN [outcome |-> "ValueError",
          message |-> "SPOTIFY_REDIRECT_URI must be a valid URL"]
    ELSE IF Falsy(config.client_id)
    THEN [outcome |-> "ValueError", message |-> "SPOTIFY_CLIENT_ID is required"]
    ELSE [outcome |-> "ok", message |-> ""]

\* SpotifyConfig.validate(): True, or the first ValueError raised.
validate(config) ==
    IF Falsy(config.client_id)
    THEN [outcome |-> "ValueError", message |-> "SPOTIFY_CLIENT_ID is required"]
    ELSE IF Falsy(config.redirect_uri)
    THEN [outcome |-> "ValueError",
          message |-> "SPOTIFY_REDIRECT_URI is required"]
    ELSE IF ~(startswith(config.redirect_uri, HttpPrefix)
              \/ startswith(config.redirect_uri, HttpsPrefix))
    THEN [outcome |-> "ValueError",
          message |-> "SPOTIFY_REDIRECT_URI must be a valid URL"]
    ELSE [outcome |-> "ok", message |-> ""]

\* load_config(): the configuration if it validates, else the error.
load_config(os_env) ==
    LET config == SpotifyConfig(os_env)
        v == validate(config)
    IN  [outcome |-> v.outcome, message |-> v.message,
         config |-> IF v.outcome = "ok" THEN config ELSE NoneObj]

\* The environments load_config is examined on: every variable unset (None
\* here), empty, or set to one of a few values.
ConfigClientIds == {None, <<>>, ClientIdArg, <<" ">>}
ConfigRedirectUris ==
    {None, <<>>, RedirectUriArg,
     <<"h", "t", "t", "p", "s", ":", "/", "/", "h">>,
     <<"f", "t", "p", ":", "/", "/", "h">>,
     <<"H", "T", "T", "P", ":", "/", "/", "h">>,
     <<"h", "t", "t", "p", ":", "/", "h">>,
     <<"h">>,
     <<"h", "t", "t", "p", "s", ":", "/">>,
     <<" ", "h", "t", "t", "p", ":", "/", "/", "h">>}
ConfigScopes == {None, <<>>, <<"u", "s", "e", "r", "-", "t", "o", "p", "-", "r", "e", "a", "d">>}
Setting(key, value) == IF value = None THEN <<>> ELSE key :> value
Environ(c, r, sc) ==
    Setting("SPOTIFY_CLIENT_ID", c) @@ Setting("SPOTIFY_REDIRECT_URI", r)
    @@ Setting("SPOTIFY_SCOPE", sc)
ConfigEnvirons ==
    {Environ(c, r, sc) : c \in ConfigClientIds, r \in ConfigRedirectUris,
                         sc \in ConfigScopes}

\* ------------------------------------------------------------ command line
\* The command line when no command has run: main() has not been entered.
IdleCli ==
    [pc |-> "idle", command |-> "none", exited |-> FALSE, exit_code |-> 0,
     wrote |-> FALSE, writes |-> 0, line |-> <<>>, user |-> <<>>]

\* A session used as a library: no environment variables, no .env file, no
\* command running.
NoCommandLine ==
    /\ environ = <<>>
    /\ env_file = NoneObj
    /\ cli = IdleCli

\* --------------------------------------------------------- specifications
\* SpotifyAuthManager(client_id, redirect_uri, scope) with its handler; the
\* handler keeps a caller's state or draws a random one (lines 41-51,
\* 216-219).
Construct ==
    \E state_arg \in {None, <<>>} \cup StateTokens,
       token_urlsafe \in StateTokens :
        /\ client_id = ClientIdArg
        /\ redirect_uri = RedirectUriArg
        /\ scope = Or(None, DefaultScope)
        /\ state = Or(state_arg, token_urlsafe)
        /\ code_verifier = None
        /\ code_challenge = None
        /\ oauth = NoneObj
        /\ access_token = None
        /\ refresh_token = None
        /\ spotify_client = NoneObj
        /\ issued = None
        /\ attempted = FALSE
        /\ last = [NoCall EXCEPT !.arg = state_arg]

\* A new session talking to an endpoint that answers with token bundles.
Init == Construct /\ endpoint = "conformant" /\ NoCommandLine

\* A new session talking to an endpoint that may answer with a null
\* access_token.
InitLax == Construct /\ endpoint = "lax" /\ NoCommandLine

Next ==
    \/ GeneratePkceParams
    \/ StartAuthFlow
    \/ \E url \in FlowUrls : ValidateAuthorizationResponse(url)
    \/ \E c \in AuthCodes : ExchangeCodeForTokens(c)
    \/ \E url \in FlowUrls : CompleteAuthFlow(url)
    \/ RefreshAuth
    \/ IsAuthenticated

Spec == Init /\ [][Next]_vars

\* The redirect check as a function of the stored state and the URL: one
\* call on a fresh handler, over every URL of up to MaxParams pairs.
NextRedirect ==
    /\ last.op = "init"
    /\ \E url \in RedirectUrls : ValidateAuthorizationResponse(url)

SpecRedirect == Init /\ [][NextRedirect]_vars

\* The session against the lax endpoint.
SpecLax == InitLax /\ [][Next]_vars

\* ------------------------------------------------------------ properties
\* The redirect URL as its reader sees it: a parameter is a key=value pair
\* with a non-empty value, and its value is that of its first occurrence.
ParamIndices(q, k) == {i \in DOMAIN q : q[i][1] = k /\ q[i][2] # <<>>}
HasParam(q, k) == ParamIndices(q, k) # {}
ParamValue(q, k) ==
    LET I == ParamIndices(q, k)
    IN  unquote(q[CHOOSE i \in I : \A j \in I : i <= j][2])

Validated == last.op = "validate_authorization_response"

\* C1: with no error parameter in the redirect URL, validate_redirect fails
\* with CsrfMismatchError whenever the state parameter is missing or is not
\* exactly the stored csrf state (no normalization), whether or not a code
\* is present, and it returns no code.
C1_CsrfMismatch ==
    (/\ Validated
     /\ ~HasParam(last.url, "error")
     /\ \/ ~HasParam(last.url, "state")
        \/ ParamValue(last.url, "state") # state)
    => /\ last.outcome = "CsrfMismatchError"
       /\ last.code = None

\* A URL with a code and a state that differs from the stored one only in
\* the case of a letter was refused.
C1_Witness ==
    /\ Validated
    /\ ~HasParam(last.url, "error")
    /\ HasParam(last.url, "code")
    /\ HasParam(last.url, "state")
    /\ ParamValue(last.url, "state") # state
    /\ {ParamValue(last.url, "state"), state} = StateTokens
    /\ last.outcome = "CsrfMismatchError"

\* C2: a redirect URL with an error parameter makes validate_redirect fail
\* with AuthorizationError carrying that error code, whether or not a code
\* is present and whether or not the state is present or matches.
C2_ErrorFirst ==
    (Validated /\ HasParam(last.url, "error"))
    => /\ last.outcome = "AuthorizationError"
       /\ last.error = ParamValue(last.url, "error")
       /\ last.code = None

\* A URL with an error, a code and the matching state was refused with the
\* error.
C2_Witness ==
    /\ Validated
    /\ HasParam(last.url, "error")
    /\ HasParam(last.url, "code")
    /\ HasParam(last.url, "state")
    /\ ParamValue(last.url, "state") = state
    /\ last.outcome = "AuthorizationError"
    /\ last.error = AccessDenied

Completed == last.op = "complete_auth_flow"
Refreshed == last.op = "refresh_auth"

\* The redirect URL carries no error, a code and the stored state.
GoodRedirect(q) ==
    /\ ~HasParam(q, "error")
    /\ HasParam(q, "state")
    /\ ParamValue(q, "state") = state
    /\ HasParam(q, "code")

\* C3: complete(redirect_url) sends a token-exchange request only after
\* validate_redirect has returned a code for that URL: never for a URL with
\* an error, a missing or mismatched state, or no code; the request carries
\* the validated code.
C3_ExchangeOnlyAfterValidation ==
    (Completed /\ last.sent # <<>>)
    => /\ GoodRedirect(last.url)
       /\ Len(last.sent) = 1
       /\ last.sent[1].call = "get_access_token"
       /\ last.sent[1].code = ParamValue(last.url, "code")
       /\ validate_authorization_response(last.url) =
            [outcome |-> "ok", error |-> None, code |-> last.sent[1].code]

\* complete() on a session that has a verifier, given a URL with a code and
\* a mismatched state, failed without a request.
C3_Witness ==
    /\ Completed
    /\ ~verifier_missing
    /\ HasParam(last.url, "code")
    /\ HasParam(last.url, "state")
    /\ ParamValue(last.url, "state") # state
    /\ last.outcome = "CsrfMismatchError"
    /\ last.sent = <<>>

\* The string values a token-exchange request hands to the library.
RequestValues(r) ==
    {r.code} \cup
    {r.oauth[f] : f \in {"client_id", "client_secret", "redirect_uri",
                         "scope", "state", "cache_handler"}}

\* C4: every token-exchange request exchange_code sends carries the code
\* passed in, the stored verifier, the redirect_uri and the client_id.
C4_RequestCarriesVerifier ==
    \A i \in DOMAIN last.sent :
        last.sent[i].call = "get_access_token"
        => /\ last.sent[i].code =
                (IF Completed THEN last.code ELSE last.arg)
           /\ last.sent[i].oauth.redirect_uri = redirect_uri
           /\ last.sent[i].oauth.client_id = client_id
           /\ code_verifier \in RequestValues(last.sent[i])

\* C5: after a successful complete() the stored access_token is the
\* response's, and the stored refresh_token is overwritten only if the
\* response has one; otherwise the one stored before the call is kept.
C5_CompleteKeepsRefreshToken ==
    [][(last'.op = "complete_auth_flow" /\ last'.outcome = "ok")
       => /\ access_token' = last'.token_info["access_token"]
          /\ refresh_token' =
                (IF "refresh_token" \in DOMAIN last'.token_info
                 THEN last'.token_info["refresh_token"]
                 ELSE refresh_token)]_vars

\* C6: refresh() sends the refresh token stored at the time of the call,
\* which is the one most recently issued to the session; on success it
\* replaces access_token by the response's and replaces refresh_token only
\* if the response has one, keeping the old one otherwise.
C6_RefreshRotation ==
    [][(last'.op = "refresh_auth" /\ last'.sent # <<>>)
       => /\ Len(last'.sent) = 1
          /\ last'.sent[1].call = "refresh_access_token"
          /\ last'.sent[1].refresh_token = refresh_token
          /\ last'.sent[1].refresh_token = issued
          /\ last'.outcome = "ok"
             => /\ access_token' = last'.token_info["access_token"]
                /\ refresh_token' =
                      (IF "refresh_token" \in DOMAIN last'.token_info
                       THEN last'.token_info["refresh_token"]
                       ELSE refresh_token)]_vars

\* A refresh succeeded on a response without a refresh token, and the
\* stored refresh token is still there.
C6_Witness ==
    /\ Refreshed
    /\ last.outcome = "ok"
    /\ "refresh_token" \notin DOMAIN last.token_info
    /\ refresh_token \in RefreshTokens
    /\ access_token = last.token_info["access_token"]

\* complete() was given a good redirect URL after a verifier was generated,
\* and the token endpoint answered with a token_info.
CompletedWithGoodRedirect ==
    /\ Completed
    /\ GoodRedirect(last.url)
    /\ ~verifier_missing
    /\ last.reply # NoneObj
    /\ last.reply.ok

\* C7: a fresh session is not authenticated and start() leaves it so; a
\* complete() on a URL with a code and the session's state, after start(),
\* whose token exchange succeeds, returns a client handle and makes
\* is_authenticated() true.
C7_AuthenticatedAfterComplete ==
    /\ [](last.op = "init" => ~is_authenticated)
    /\ [][(~is_authenticated /\ last'.op = "start_auth_flow")
          => ~is_authenticated']_vars
    /\ [](CompletedWithGoodRedirect
          => /\ last.outcome = "ok"
             /\ last.client # NoneObj
             /\ last.client = spotify_client
             /\ is_authenticated)

\* A complete() succeeded on a response without a refresh token.
C7_Witness ==
    /\ CompletedWithGoodRedirect
    /\ "refresh_token" \notin DOMAIN last.token_info
    /\ last.client # NoneObj
    /\ is_authenticated

\* C8: is_authenticated() returns true exactly when a client handle and an
\* access_token are both stored.
C8_IsAuthenticated ==
    last.op = "is_authenticated"
    => (last.flag <=> (spotify_client # NoneObj /\ access_token # None))

\* is_authenticated() answered false with a client handle stored and no
\* access token.
C8_Witness ==
    /\ last.op = "is_authenticated"
    /\ spotify_client # NoneObj
    /\ access_token = None
    /\ ~last.flag

\* C9: exchange_code on a handler with no verifier generated fails with
\* PreconditionError and sends no request.
C9_ExchangeNeedsVerifier ==
    (last.op = "exchange_code_for_tokens" /\ code_verifier = None)
    => /\ last.outcome = "PreconditionError"
       /\ last.sent = <<>>

\* exchange_code was called before any verifier was generated.
C9_Witness ==
    /\ last.op = "exchange_code_for_tokens"
    /\ code_verifier = None
    /\ last.outcome = "PreconditionError"

\* C10: refresh() with no refresh token stored fails with
\* NoRefreshTokenError and sends no request.
C10_RefreshNeedsToken ==
    [][(last'.op = "refresh_auth" /\ refresh_token = None)
       => /\ last'.outcome = "NoRefreshTokenError"
          /\ last'.sent = <<>>
          /\ UNCHANGED <<handler, manager>>]_vars

\* refresh() was refused on a session that has completed a flow whose
\* response had no refresh token.
C10_Witness ==
    /\ Refreshed
    /\ last.outcome = "NoRefreshTokenError"
    /\ last.sent = <<>>
    /\ access_token # None

\* The redirect URL carries no error and the stored state.
StateAccepted(q) ==
    /\ ~HasParam(q, "error")
    /\ HasParam(q, "state")
    /\ ParamValue(q, "state") = state

\* C11: with no error parameter and the stored state in the redirect URL,
\* validate_redirect returns the value of the code parameter if there is
\* one, and returns None without raising if there is none.
C11_CodeOrNone ==
    (Validated /\ StateAccepted(last.url))
    => /\ last.outcome = "ok"
       /\ last.error = None
       /\ last.code = (IF HasParam(last.url, "code")
                       THEN ParamValue(last.url, "code")
                       ELSE None)

\* A URL with the stored state and no code was answered with None, not
\* with an error.
C11_Witness ==
    /\ Validated
    /\ StateAccepted(last.url)
    /\ ~HasParam(last.url, "code")
    /\ last.outcome = "ok"
    /\ last.code = None

\* C12: complete(redirect_url) fails with IncompleteAuthorizationError when
\* the URL has no error, the stored state and no code, and sends no
\* token-exchange request.
C12_IncompleteWithoutCode ==
    (Completed /\ StateAccepted(last.url) /\ ~HasParam(last.url, "code"))
    => /\ last.outcome = "IncompleteAuthorizationError"
       /\ last.sent = <<>>

\* complete() on a session that has a verifier was refused for want of a
\* code.
C12_Witness ==
    /\ Completed
    /\ StateAccepted(last.url)
    /\ ~HasParam(last.url, "code")
    /\ ~verifier_missing
    /\ last.outcome = "IncompleteAuthorizationError"
    /\ last.sent = <<>>

\* start() returned an authorization URL.
Started == last.op = "start_auth_flow" /\ last.outcome = "ok"

\* The value sequence `sub` occurs inside the value sequence `s`.
IsSubstring(sub, s) ==
    \E i \in 1..(Len(s) - Len(sub) + 1) :
        SubSeq(s, i, i + Len(sub) - 1) = sub

\* C13: no authorization URL returned by start() contains the stored
\* verifier, as written or percent-encoded, in any parameter; it carries
\* the challenge only.
C13_UrlWithoutVerifier ==
    Started
    => /\ code_verifier # None
       /\ \A i \in DOMAIN last.auth_url.query :
             /\ ~IsSubstring(code_verifier, last.auth_url.query[i][2])
             /\ ~IsSubstring(quote_plus(code_verifier),
                             last.auth_url.query[i][2])
             /\ ~IsSubstring(code_verifier,
                             unquote(last.auth_url.query[i][2]))
       /\ ~IsSubstring(code_verifier, last.auth_url.endpoint)

\* An authorization URL was returned while a verifier is stored, and its
\* code_challenge parameter is the stored challenge.
C13_Witness ==
    /\ Started
    /\ code_verifier # None
    /\ ParamValue(last.auth_url.query, "code_challenge") = code_challenge

\* C14: every authorization attempt begun with start() uses a PKCE pair that
\* no earlier attempt on the session has used.
C14_FreshPairPerAttempt == Started => ~last.reused

\* C15: start() generates a PKCE pair only when no challenge is stored;
\* when one is stored it leaves verifier and challenge as they are, so a
\* call repeated with no generate_pkce_params in between returns the same
\* URL.
C15_LazyPkce ==
    /\ [][last'.op = "start_auth_flow"
          => IF Falsy(code_challenge)
             THEN code_verifier' # None /\ code_challenge' # None
             ELSE UNCHANGED <<code_verifier, code_challenge>>]_vars
    /\ [][(Started /\ last'.op = "start_auth_flow")
          => last'.auth_url = last.auth_url]_vars
    /\ [](Started /\ last.reused
          => ParamValue(last.auth_url.query, "code_challenge")
             = code_challenge)

\* start() was called on a session whose pair an earlier start() had used,
\* and the pair is still stored.
C15_Witness ==
    /\ Started
    /\ last.reused
    /\ code_verifier # None

\* C16: verifier and challenge are both absent or both present; a present
\* verifier has exactly VerifierLength characters and the challenge is the
\* one derived from it; every generate_pkce_params call stores such a pair.
C16_PkcePair ==
    /\ [](IF code_verifier = None
          THEN code_challenge = None
          ELSE /\ code_challenge # None
               /\ Len(code_verifier) = VerifierLength
               /\ code_challenge = get_code_challenge(code_verifier))
    /\ [][last'.op = "generate_pkce_params"
          => /\ Len(code_verifier') = VerifierLength
             /\ code_challenge' = get_code_challenge(code_verifier')]_vars

\* generate_pkce_params replaced a stored pair with another one.
C16_Witness ==
    /\ last.op = "generate_pkce_params"
    /\ Len(code_verifier) = VerifierLength
    /\ code_challenge = get_code_challenge(code_verifier)
    /\ code_verifier # generate_code_verifier(1, VerifierLength)

\* The parameters of an authorization URL as the receiving server reads
\* them.
UrlParams(url) == parse_qs(url.query)

\* C17: start() returns a URL on the authorization endpoint whose query
\* parameters are exactly client_id, response_type=code, redirect_uri,
\* scope, state, code_challenge_method=S256 and code_challenge, the five
\* session values being the stored ones.
C17_AuthorizationUrl ==
    Started
    => /\ last.auth_url.endpoint = AuthorizeEndpoint
       /\ Len(last.auth_url.query) = 7
       /\ UrlParams(last.auth_url) =
             [client_id |-> <<client_id>>,
              response_type |-> << <<"c", "o", "d", "e">> >>,
              redirect_uri |-> <<redirect_uri>>,
              scope |-> <<scope>>,
              state |-> <<state>>,
              code_challenge_method |-> << <<"S", "2", "5", "6">> >>,
              code_challenge |-> <<code_challenge>>]

\* A URL was returned whose redirect_uri and scope had to be escaped.
C17_Witness ==
    /\ Started
    /\ Len(last.auth_url.query) = 7
    /\ last.auth_url.query[3][2] # redirect_uri
    /\ last.auth_url.query[4][2] # scope
    /\ UrlParams(last.auth_url)["redirect_uri"] = <<redirect_uri>>

\* Neither token is stored.
NoTokens == access_token = None /\ refresh_token = None

\* C18: access_token and refresh_token are both None until complete() has
\* exchanged a code successfully: the session starts without tokens, only
\* a successful complete() ends that, and no refresh() succeeds before.
C18_NoTokensBeforeComplete ==
    /\ [](last.op = "init" => NoTokens)
    /\ [][(NoTokens /\ ~(last'.op = "complete_auth_flow"
                         /\ last'.outcome = "ok"))
          => /\ NoTokens'
             /\ ~(last'.op = "refresh_auth" /\ last'.outcome = "ok")
             /\ (last'.op = "refresh_auth" => last'.sent = <<>>)]_vars

\* refresh() was refused on a session that has a verifier and no tokens.
C18_Witness ==
    /\ last.op = "refresh_auth"
    /\ last.outcome = "NoRefreshTokenError"
    /\ NoTokens
    /\ code_verifier # None

\* C19 as stated: the csrf state equals the caller-supplied value whenever
\* the caller supplies one, is otherwise a generated non-empty token, and
\* no operation changes it.
C19_StateAsSupplied ==
    /\ [](last.op = "init"
          => IF last.arg # None THEN state = last.arg
             ELSE state \in StateTokens)
    /\ [][state' = state]_vars

\* C19, amended: the csrf state equals the caller-supplied value whenever
\* that value is a non-empty string; when the caller supplies None or the
\* empty string it is a generated non-empty token; no operation changes it.
C19_StateFixed ==
    /\ [](last.op = "init"
          => IF ~Falsy(last.arg) THEN state = last.arg
             ELSE state \in StateTokens)
    /\ [](state # None /\ state # <<>>)
    /\ [][state' = state]_vars

\* A session created with the empty string as its state holds a generated
\* token.
C19_Witness ==
    /\ last.op = "init"
    /\ last.arg = <<>>
    /\ state \in StateTokens

\* A call that may reach the token endpoint has returned.
EndpointCall ==
    last.op \in {"complete_auth_flow", "refresh_auth",
                 "exchange_code_for_tokens"}

\* C20: no network call is retried: every complete() and refresh() sends at
\* most one request to the token endpoint, and a failed request ends the
\* call with the endpoint's failure after that single request.
C20_NoRetry ==
    EndpointCall
    => /\ Len(last.sent) <= 1
       /\ (last.reply # NoneObj /\ ~last.reply.ok)
          => /\ last.outcome = "TokenEndpointError"
             /\ Len(last.sent) = 1
       /\ (last.outcome = "TokenEndpointError") => Len(last.sent) = 1

\* refresh() sent one request, the endpoint refused it, and the call ended
\* with that failure.
C20_Witness ==
    /\ Refreshed
    /\ last.reply # NoneObj
    /\ ~last.reply.ok
    /\ last.outcome = "TokenEndpointError"
    /\ Len(last.sent) = 1

\* ------------------------------------------------- configuration, checked
\* No session object exists.
NoSession ==
    /\ client_id = None
    /\ redirect_uri = None
    /\ scope = None
    /\ state = None
    /\ code_verifier = None
    /\ code_challenge = None
    /\ oauth = NoneObj
    /\ access_token = None
    /\ refresh_token = None
    /\ spotify_client = NoneObj
    /\ issued = None
    /\ attempted = FALSE
    /\ last = NoCall

\* load_dotenv() at import of config.py: the variables of the .env file are
\* added to the environment, a variable already set keeps its value.
os_environ ==
    IF env_file = NoneObj THEN environ ELSE environ @@ env_file.values

\* load_config() called on the environment of the process.
LoadConfig ==
    LET r == load_config(os_environ)
    IN  /\ last' = [op |-> "load_config", outcome |-> r.outcome,
                    message |-> r.message, config |-> r.config]
        /\ UNCHANGED <<handler, manager, env, issued, attempted>>

\* load_config as a function of the environment: one call per environment.
InitConfig ==
    /\ NoSession
    /\ endpoint = "conformant"
    /\ environ \in ConfigEnvirons
    /\ env_file = NoneObj
    /\ cli = IdleCli

NextConfig == last.op = "init" /\ LoadConfig

SpecConfig == InitConfig /\ [][NextConfig]_vars

ConfigLoaded == last.op = "load_config"
IsSet(key) == key \in DOMAIN environ
NonEmpty(key) == IsSet(key) /\ environ[key] # <<>>
BeginsWith(s, p) == Len(s) >= Len(p) /\ \A i \in DOMAIN p : s[i] = p[i]
RedirectUriHasScheme ==
    \/ BeginsWith(environ["SPOTIFY_REDIRECT_URI"],
                  <<"h", "t", "t", "p", ":", "/", "/">>)
    \/ BeginsWith(environ["SPOTIFY_REDIRECT_URI"],
                  <<"h", "t", "t", "p", "s", ":", "/", "/">>)

\* C21: loading the configuration succeeds exactly when CLIENT_ID is a
\* non-empty string and REDIRECT_URI is non-empty and starts with http://
\* or https://; otherwise it fails with the configuration error, a missing
\* or empty CLIENT_ID reported before a missing or empty REDIRECT_URI,
\* and that before a bad prefix; an unset SCOPE takes the default of the
\* two baseline scopes.
C21_ConfigValidation ==
    ConfigLoaded
    => /\ last.outcome = "ok"
          <=> /\ NonEmpty("SPOTIFY_CLIENT_ID")
              /\ NonEmpty("SPOTIFY_REDIRECT_URI")
              /\ RedirectUriHasScheme
       /\ last.outcome # "ok"
          => /\ last.outcome = "ValueError"
             /\ last.config = NoneObj
             /\ last.message =
                  IF ~NonEmpty("SPOTIFY_CLIENT_ID")
                  THEN "SPOTIFY_CLIENT_ID is required"
                  ELSE IF ~NonEmpty("SPOTIFY_REDIRECT_URI")
                  THEN "SPOTIFY_REDIRECT_URI is required"
                  ELSE "SPOTIFY_REDIRECT_URI must be a valid URL"
       /\ last.outcome = "ok"
          => /\ last.config.client_id = environ["SPOTIFY_CLIENT_ID"]
             /\ last.config.redirect_uri = environ["SPOTIFY_REDIRECT_URI"]
             /\ last.config.scope =
                  IF IsSet("SPOTIFY_SCOPE") THEN environ["SPOTIFY_SCOPE"]
                  ELSE DefaultScope

\* A configuration without SCOPE was loaded and carries the default scope.
C21_Witness ==
    /\ ConfigLoaded
    /\ last.outcome = "ok"
    /\ ~IsSet("SPOTIFY_SCOPE")
    /\ last.config.scope = DefaultScope

\* ------------------------------------------------------ command line, run
\* create_env_template(): the settings the template file assigns.
TemplateClientId ==
    <<"y", "o", "u", "r", "_", "c", "l", "i", "e", "n", "t", "_", "i", "d", "_", "h", "e", "r", "e">>
TemplateScope ==
    <<"u", "s", "e", "r", "-", "r", "e", "a", "d", "-", "p", "r", "i", "v", "a", "t", "e", " ", "u", "s", "e", "r", "-", "r", "e", "a", "d", "-", "e", "m", "a", "i", "l", " ", "u", "s", "e", "r", "-", "t", "o", "p", "-", "r", "e", "a", "d">>
create_env_template ==
    [kind |-> "file", text |-> "template",
     values |-> Environ(TemplateClientId, RedirectUriArg, TemplateScope)]

\* Mutant of env_file_exists: the file is taken to be absent on every call.
EnvFileNeverExists == FALSE

\* Path(".env").exists().
env_file_exists == env_file # NoneObj

\* setup_env_file(): what it returns and the .env file it leaves.
setup_env_file ==
    IF ~env_file_exists
    THEN [returned |-> FALSE, env_file |-> create_env_template,
          wrote |-> TRUE]
    ELSE [returned |-> TRUE, env_file |-> env_file, wrote |-> FALSE]

\* How a command ends: main() returns `code`, sys.exit passes it on.  The
\* record keeps what the command did: whether it wrote the .env file (and
\* how often that has happened), the line it read, the profile reply.
Exit(command, code, wrote, line, user) ==
    [pc |-> "idle", command |-> command, exited |-> TRUE, exit_code |-> code,
     wrote |-> wrote, writes |-> cli.writes + (IF wrote THEN 1 ELSE 0),
     line |-> line, user |-> user]

\* python main.py setup.
Setup ==
    /\ cli.pc = "idle"
    /\ env_file' = setup_env_file.env_file
    /\ cli' = Exit("setup", 0, setup_env_file.wrote, <<>>, <<>>)
    /\ UNCHANGED <<handler, manager, endpoint, environ, issued, attempted,
                   last>>

\* python main.py auth, up to input(): the .env check, load_config, a new
\* SpotifyAuthManager and start_auth_flow(); the command then waits for
\* the redirect URL, or has returned 1.
AuthBegin ==
    \E token_urlsafe \in StateTokens, seed \in 1..NumSeeds :
    LET setup == setup_env_file
        loaded == load_config(os_environ)
        verifier == generate_code_verifier(seed, VerifierLength)
        self == [client_id |-> loaded.config.client_id,
                 redirect_uri |-> loaded.config.redirect_uri,
                 scope |-> Or(loaded.config.scope, DefaultScope),
                 state |-> Or(None, token_urlsafe),
                 code_challenge |-> get_code_challenge(verifier)]
    IN  /\ cli.pc = "idle"
        /\ env_file' = setup.env_file
        /\ UNCHANGED <<endpoint, environ>>
        /\ IF ~setup.returned
           THEN /\ cli' = Exit("auth", 1, setup.wrote, <<>>, <<>>)
                /\ UNCHANGED <<handler, manager, issued, attempted, last>>
           ELSE IF loaded.outcome # "ok"
           THEN /\ cli' = Exit("auth", 1, setup.wrote, <<>>, <<>>)
                /\ UNCHANGED <<handler, manager, issued, attempted, last>>
           ELSE /\ client_id' = self.client_id
                /\ redirect_uri' = self.redirect_uri
                /\ scope' = self.scope
                /\ state' = self.state
                /\ code_verifier' = verifier
                /\ code_challenge' = self.code_challenge
                /\ oauth' = NoneObj
                /\ access_token' = None
                /\ refresh_token' = None
                /\ spotify_client' = NoneObj
                /\ issued' = None
                /\ attempted' = TRUE
                /\ last' = [NoCall EXCEPT
                               !.op = "start_auth_flow", !.outcome = "ok",
                               !.auth_url = authorization_url_of(self)]
                /\ cli' = [pc |-> "input", command |-> "auth",
                           exited |-> FALSE, exit_code |-> 0,
                           wrote |-> FALSE, writes |-> cli.writes,
                           line |-> <<>>, user |-> <<>>]

\* What the user types at the prompt: a line of `pad` spaces around a URL
\* (`url` holds it) or around nothing (`url` is empty).
InputLines ==
    {[pad |-> n, url |-> <<>>] : n \in 0..1}
    \cup {[pad |-> n, url |-> <<u>>] : n \in 0..1, u \in FlowUrls}

\* str.strip().
strip(line) == [line EXCEPT !.pad = 0]

\* `not redirect_url`: the empty string.
redirect_url_missing(redirect_url) ==
    redirect_url.pad = 0 /\ redirect_url.url = <<>>

\* What spotify_client.current_user() can do: fail, or return a profile,
\* which has an email only if the scope granted it.
UserReplies ==
    {[ok |-> FALSE],
     [ok |-> TRUE, user |-> [display_name |-> "n"]],
     [ok |-> TRUE, user |-> [display_name |-> "n", email |-> "e"]]}

\* Mutant of user_shown: a failed profile request is not noticed.
UserShownAlways(user_reply) == TRUE

\* Lines 69-70: the call, then user['display_name'] and user['email'].
user_shown(user_reply) ==
    /\ user_reply.ok
    /\ "display_name" \in DOMAIN user_reply.user
    /\ "email" \in DOMAIN user_reply.user

\* python main.py auth, from input() on: the redirect URL is read and
\* stripped, complete_auth_flow and current_user are called, and the
\* command returns.
AuthFinish(line) ==
    \E user_reply \in UserReplies :
    LET redirect_url == strip(line)
    IN  /\ cli.pc = "input"
        /\ UNCHANGED <<endpoint, environ, env_file>>
        /\ IF redirect_url_missing(redirect_url)
           THEN /\ cli' = Exit("auth", 1, FALSE, <<line>>, <<>>)
                /\ UNCHANGED <<handler, manager, issued, attempted, last>>
           ELSE /\ complete_auth_flow(redirect_url.url[1])
                /\ cli' = IF last'.outcome # "ok"
                          THEN Exit("auth", 1, FALSE, <<line>>, <<>>)
                          ELSE IF ~user_shown(user_reply)
                          THEN Exit("auth", 1, FALSE, <<line>>,
                                    <<user_reply>>)
                          ELSE Exit("auth", 0, FALSE, <<line>>,
                                    <<user_reply>>)

\* The .env files and environments the command line is run with.
CliEnvFiles ==
    {NoneObj, create_env_template,
     [kind |-> "file", text |-> "edited",
      values |-> Environ(ClientIdArg, RedirectUriArg, None)],
     [kind |-> "file", text |-> "edited",
      values |-> Environ(ClientIdArg, None, None)]}
CliEnvirons ==
    {Environ(None, None, None), Environ(ClientIdArg, RedirectUriArg, None),
     Environ(<<>>, None, None)}

InitCli ==
    /\ NoSession
    /\ endpoint = "conformant"
    /\ environ \in CliEnvirons
    /\ env_file \in CliEnvFiles
    /\ cli = IdleCli

NextCli ==
    \/ Setup
    \/ AuthBegin
    \/ \E line \in InputLines : AuthFinish(line)

SpecCli == InitCli /\ [][NextCli]_vars

\* A command has returned.
Exited(command) == cli.exited /\ cli.command = command

\* The facts of the auth command that has returned: the .env file was
\* there, the configuration loads, the line read is not blank, complete()
\* succeeded, the profile request succeeded.
AuthFoundEnvFile == ~cli.wrote
AuthConfigLoads == load_config(os_environ).outcome = "ok"
AuthReadRedirectUrl ==
    /\ cli.line # <<>>
    /\ cli.line[1].url # <<>>
AuthCompleted == last.op = "complete_auth_flow" /\ last.outcome = "ok"
AuthApiCallOk == cli.user # <<>> /\ cli.user[1].ok
AuthSucceeded ==
    /\ AuthFoundEnvFile
    /\ AuthConfigLoads
    /\ AuthReadRedirectUrl
    /\ AuthCompleted
    /\ AuthApiCallOk

\* C22: a command exits with 0 or 1; setup returns 0; auth returns 0 only
\* when the .env file was there, the configuration loads, a non-empty
\* redirect URL was supplied, complete() succeeded and the profile request
\* succeeded, and returns 1 in every other case; when all of that holds and
\* the profile has a name and an email it returns 0.
C22_ExitCodes ==
    cli.exited
    => /\ cli.exit_code \in {0, 1}
       /\ Exited("setup") => cli.exit_code = 0
       /\ (Exited("auth") /\ cli.exit_code = 0) => AuthSucceeded
       /\ (Exited("auth") /\ ~AuthSucceeded) => cli.exit_code = 1
       /\ (Exited("auth") /\ AuthSucceeded
           /\ {"display_name", "email"} \subseteq DOMAIN cli.user[1].user)
          => cli.exit_code = 0

\* auth returned 0 after a padded redirect URL and a successful exchange.
C22_Witness ==
    /\ Exited("auth")
    /\ cli.exit_code = 0
    /\ AuthSucceeded
    /\ is_authenticated

\* C23: the template is written only when no .env file exists: no setup or
\* auth command changes a .env file that exists, a change of the file is
\* the writing of the template where there was none, and over any
\* sequence of commands the template is written at most once.
C23_EnvFileWrittenOnce ==
    /\ [][env_file # NoneObj => env_file' = env_file]_vars
    /\ [][env_file' # env_file
          => /\ env_file = NoneObj
             /\ env_file' = create_env_template
             /\ cli'.wrote]_vars
    /\ [][cli'.writes # cli.writes => env_file = NoneObj]_vars
    /\ [](cli.writes <= 1)

\* A command found the template an earlier command had written and left
\* it as it was.
C23_Witness ==
    /\ cli.exited
    /\ cli.writes = 1
    /\ ~cli.wrote
    /\ env_file = create_env_template

\* ------------------------------------------------------------ data models
\* An optional integer field is <<>> when it is None and <<n>> otherwise.
\* Field(ge=lo, le=hi) on an integer.
Field(v, lo, hi) == lo <= v /\ v <= hi

\* popularity: int | None = Field(None, ge=0, le=100).
popularity_valid(popularity) ==
    popularity = <<>> \/ Field(popularity[1], 0, 100)

\* Track.validate_duration_ms: raises if v < 0.
validate_duration_ms(v) == ~(v < 0)

\* Mutant of validate_disc_number: disc 0 is let through.
ValidateDiscNumberFromZero(v) == ~(v < 0)

\* Track.validate_disc_number: raises if v < 1.
validate_disc_number(v) == ~(v < 1)

\* Track.validate_track_number: raises if v < 1.
validate_track_number(v) == ~(v < 1)

\* AudioFeatures.validate_mode: raises if v not in [0, 1].
validate_mode(v) == v \in {0, 1}

\* AudioFeatures.validate_time_signature: raises if v < 3 or v > 7.
validate_time_signature(v) == ~(v < 3 \/ v > 7)

\* What constructing a model gives: the object, or a ValidationError that
\* names the fields refused.
Constructed(class, data, refused) ==
    [op |-> class, data |-> data,
     outcome |-> IF refused = {} THEN "ok" ELSE "ValidationError",
     errors |-> refused,
     object |-> IF refused = {} THEN [class |-> class, data |-> data]
                ELSE NoneObj]

\* Artist(**data) and Album(**data), as far as their integer field goes.
Artist(data) ==
    Constructed("Artist", data,
                {f \in {"popularity"} : ~popularity_valid(data.popularity)})
Album(data) ==
    Constructed("Album", data,
                {f \in {"popularity"} : ~popularity_valid(data.popularity)})

\* Track(**data), as far as its integer fields go.
Track(data) ==
    Constructed("Track", data,
        {f \in {"popularity"} : ~popularity_valid(data.popularity)}
        \cup {f \in {"disc_number"} : ~validate_disc_number(data.disc_number)}
        \cup {f \in {"track_number"} :
                ~validate_track_number(data.track_number)}
        \cup {f \in {"duration_ms"} : ~validate_duration_ms(data.duration_ms)})

\* AudioFeatures(**data), as far as key, mode and time_signature go.
AudioFeatures(data) ==
    Constructed("AudioFeatures", data,
        {f \in {"key"} : ~Field(data.key, -1, 11)}
        \cup {f \in {"mode"} :
                ~(Field(data.mode, 0, 1) /\ validate_mode(data.mode))}
        \cup {f \in {"time_signature"} :
                ~(Field(data.time_signature, 3, 7)
                  /\ validate_time_signature(data.time_signature))})

\* The values the models are constructed from: each range with its ends and
\* the integers just outside.
Popularities == {<<>>, <<-1>>, <<0>>, <<50>>, <<100>>, <<101>>}
DiscNumbers == {-1, 0, 1, 2}
TrackNumbers == {0, 1, 2}
Durations == {-1, 0, 1}
Keys == {-2, -1, 0, 11, 12}
Modes == {-1, 0, 1, 2}
TimeSignatures == {2, 3, 5, 7, 8}

ConstructArtist ==
    \E p \in Popularities :
        /\ last' = Artist([popularity |-> p])
        /\ UNCHANGED <<handler, manager, env, issued, attempted>>

ConstructAlbum ==
    \E p \in Popularities :
        /\ last' = Album([popularity |-> p])
        /\ UNCHANGED <<handler, manager, env, issued, attempted>>

ConstructTrack ==
    \E p \in Popularities, d \in DiscNumbers, t \in TrackNumbers,
       ms \in Durations :
        /\ last' = Track([popularity |-> p, disc_number |-> d,
                          track_number |-> t, duration_ms |-> ms])
        /\ UNCHANGED <<handler, manager, env, issued, attempted>>

ConstructAudioFeatures ==
    \E k \in Keys, m \in Modes, ts \in TimeSignatures :
        /\ last' = AudioFeatures([key |-> k, mode |-> m,
                                  time_signature |-> ts])
        /\ UNCHANGED <<handler, manager, env, issued, attempted>>

\* The models as functions of their data: one construction per behaviour.
InitModels == NoSession /\ endpoint = "conformant" /\ NoCommandLine

NextModels ==
    /\ last.op = "init"
    /\ \/ ConstructArtist
       \/ ConstructAlbum
       \/ ConstructTrack
       \/ ConstructAudioFeatures

SpecModels == InitModels /\ [][NextModels]_vars

InRange(v, lo, hi) == v \in lo..hi
PopularityInRange == last.data.popularity \in {<<>>} \cup {<<n>> : n \in 0..100}

\* C24: a model is constructed exactly when each of its integer fields is
\* in its range, and is refused as a whole otherwise: popularity 0..100
\* (Artist, Album, Track), Track disc_number >= 1, track_number >= 1,
\* duration_ms >= 0, AudioFeatures key -1..11, mode 0 or 1, time_signature
\* 3..7.
C24_IntegerRanges ==
    /\ last.op \in {"Artist", "Album"}
       => (last.outcome = "ok" <=> PopularityInRange)
    /\ last.op = "Track"
       => (last.outcome = "ok"
           <=> /\ PopularityInRange
               /\ last.data.disc_number >= 1
               /\ last.data.track_number >= 1
               /\ last.data.duration_ms >= 0)
    /\ last.op = "AudioFeatures"
       => (last.outcome = "ok"
           <=> /\ InRange(last.data.key, -1, 11)
               /\ InRange(last.data.mode, 0, 1)
               /\ InRange(last.data.time_signature, 3, 7))
    /\ last.op \in {"Artist", "Album", "Track", "AudioFeatures"}
       => /\ last.outcome \in {"ok", "ValidationError"}
          /\ last.outcome = "ValidationError" <=> last.object = NoneObj

\* A track whose only fault is disc number 0 was refused.
C24_Witness ==
    /\ last.op = "Track"
    /\ last.data.disc_number = 0
    /\ last.data.track_number = 1
    /\ last.data.duration_ms = 0
    /\ last.data.popularity = <<100>>
    /\ last.outcome = "ValidationError"
    /\ last.object = NoneObj

\* C25: a stored client handle was built from the stored access_token:
\* complete() and refresh() rebuild it in the step that stores the new
\* token, so it never carries an older token.
C25_ClientFromAccessToken ==
    /\ [](spotify_client # NoneObj => spotify_client.auth = access_token)
    /\ [][access_token' # access_token
          => /\ last'.op \in {"complete_auth_flow", "refresh_auth"}
             /\ spotify_client'.auth = access_token'
             /\ last'.client = spotify_client']_vars

\* refresh() stored the second access token and the handle carries it.
C25_Witness ==
    /\ Refreshed
    /\ last.outcome = "ok"
    /\ access_token = <<"a", Digit(2)>>
    /\ spotify_client.auth = <<"a", Digit(2)>>
    /\ last.sent[1].refresh_token # None

\* complete() or refresh() has failed, for whichever reason.
FailedCall(call) ==
    /\ call.op \in {"complete_auth_flow", "refresh_auth"}
    /\ call.outcome \in {"AuthorizationError", "CsrfMismatchError",
                         "IncompleteAuthorizationError", "PreconditionError",
                         "NoRefreshTokenError", "TokenEndpointError"}

\* C26: a complete() or refresh() call that fails leaves access_token,
\* refresh_token and the client handle exactly as they were, and every
\* call that does not succeed fails in one of the six ways.
C26_FailureKeepsSession ==
    /\ [][FailedCall(last')
          => UNCHANGED <<access_token, refresh_token, spotify_client>>]_vars
    /\ []((last.op \in {"complete_auth_flow", "refresh_auth"}
           /\ last.outcome # "ok") => FailedCall(last))

\* A refresh the endpoint refused on an authenticated session: the tokens
\* and the handle are still there.
C26_Witness ==
    /\ Refreshed
    /\ last.outcome = "TokenEndpointError"
    /\ access_token # None
    /\ refresh_token # None
    /\ spotify_client # NoneObj

\* C27: with an endpoint whose successful replies carry an access_token,
\* a session that is authenticated stays authenticated through every
\* later operation, successful or failed.
C27_AuthenticatedForever == [][is_authenticated => is_authenticated']_vars

\* An authenticated session on which a later complete() or refresh() has
\* failed is still authenticated.
C27_Witness ==
    /\ is_authenticated
    /\ last.op \in {"complete_auth_flow", "refresh_auth"}
    /\ last.outcome # "ok"
    /\ attempted

\* C28: complete() on a session on which neither start() nor
\* generate_pkce_params has been called (no verifier is stored) fails with
\* PreconditionError even for a redirect URL with a code and the stored
\* state; no token request is sent and the session stays unauthenticated.
C28_CompleteBeforeStart ==
    (Completed /\ GoodRedirect(last.url) /\ code_verifier = None)
    => /\ last.outcome = "PreconditionError"
       /\ last.sent = <<>>
       /\ ~attempted
       /\ ~is_authenticated
       /\ NoTokens

\* complete() was refused on a session that never built an authorization
\* URL, although the URL passed the state check and carried a code.
C28_Witness ==
    /\ Completed
    /\ GoodRedirect(last.url)
    /\ code_verifier = None
    /\ last.code # None
    /\ last.outcome = "PreconditionError"

\* The verdict of the redirect check on a URL, from the URL and the stored
\* state alone.
Verdict(q) ==
    IF HasParam(q, "error") THEN "AuthorizationError"
    ELSE IF ~StateAccepted(q) THEN "CsrfMismatchError"
    ELSE "ok"

\* The verdict the redirect check gave inside a call.
ValidationOutcome(call) ==
    IF call.outcome \in {"AuthorizationError", "CsrfMismatchError"}
    THEN call.outcome
    ELSE "ok"

\* C29: validate_redirect changes no session state, and neither it nor a
\* successful complete() uses up the csrf state: at every point of the
\* session the verdict on a URL is the one the URL and the stored state
\* determine, so a URL accepted once is accepted again.
C29_ValidateReadsOnly ==
    /\ [][last'.op = "validate_authorization_response"
          => UNCHANGED <<handler, manager>>]_vars
    /\ [][last'.op \in {"validate_authorization_response",
                        "complete_auth_flow"}
          => state' = state]_vars
    /\ []((Validated \/ Completed)
          => ValidationOutcome(last) = Verdict(last.url))
    /\ [][((Validated \/ Completed) /\ ValidationOutcome(last) = "ok"
           /\ last'.op \in {"validate_authorization_response",
                            "complete_auth_flow"}
           /\ last'.url = last.url)
          => ValidationOutcome(last') = "ok"]_vars

\* The URL a complete() has succeeded with was validated once more on the
\* authenticated session and accepted, its code returned.
C29_Witness ==
    /\ Validated
    /\ GoodRedirect(last.url)
    /\ last.outcome = "ok"
    /\ last.code # None
    /\ is_authenticated

\* A parameter occurs in the query string, but only with empty values.
OnlyBlank(q, k) ==
    /\ \E i \in DOMAIN q : q[i][1] = k
    /\ ~HasParam(q, k)

\* The query string without its pairs of empty value.
WithoutBlanks(q) == SelectSeq(q, LAMBDA p : p[2] # <<>>)

\* C30: validate_redirect treats a parameter given with an empty value as
\* absent and looks at the first value of a repeated parameter: `code=`
\* gives the no-code result, `state=` gives CsrfMismatchError, an empty
\* `error=` raises no AuthorizationError and leaves the outcome to the
\* state and code checks.
C30_BlankIsAbsent ==
    Validated
    => /\ (OnlyBlank(last.url, "code") /\ StateAccepted(last.url))
          => (last.outcome = "ok" /\ last.code = None)
       /\ (OnlyBlank(last.url, "state") /\ ~HasParam(last.url, "error"))
          => last.outcome = "CsrfMismatchError"
       /\ OnlyBlank(last.url, "error")
          => last.outcome = (IF StateAccepted(last.url) THEN "ok"
                             ELSE "CsrfMismatchError")
       /\ last.outcome = "AuthorizationError"
          => last.error = ParamValue(last.url, "error")
       /\ (last.outcome = "ok" /\ HasParam(last.url, "code"))
          => last.code = ParamValue(last.url, "code")
       /\ [outcome |-> last.outcome, error |-> last.error,
           code |-> last.code]
          = validate_authorization_response(WithoutBlanks(last.url))

\* A URL whose error and code are both empty and whose state is the stored
\* one was answered with None.
C30_Witness ==
    /\ Validated
    /\ OnlyBlank(last.url, "error")
    /\ OnlyBlank(last.url, "code")
    /\ StateAccepted(last.url)
    /\ last.outcome = "ok"
    /\ last.code = None

====
